---- MODULE Spec2Model ----
(***************************************************************************)
(* Model of plugins/jevt/jevt.go: the jevt extractor plugin.                *)
(*                                                                         *)
(* plugin_extract_str is modelled as one atomic action over the plugin     *)
(* context (jdata, jdataEvtnum, lastError) and the state container's       *)
(* output buffer.  Byte strings are run-length encoded so that a text      *)
(* longer than the real buffer capacity (outBufSize = 65535) is a small    *)
(* value.                                                                  *)
(***************************************************************************)
EXTENDS Integers, Sequences, FiniteSets, TLC

(***************************************************************************)
(* Byte strings: a sequence of runs [c |-> character, n |-> repetitions],  *)
(* kept in normal form (no empty run, no two adjacent runs of one          *)
(* character).                                                             *)
(***************************************************************************)
Run(c, n) == [c |-> c, n |-> n]

NUL == "\\0"

RECURSIVE Width(_)
Width(s) == IF s = <<>> THEN 0 ELSE Head(s).n + Width(Tail(s))

\* Appends run r to the normal-form string s.
AppendRun(s, r) ==
    IF r.n = 0 THEN s
    ELSE IF s # <<>> /\ s[Len(s)].c = r.c
         THEN [s EXCEPT ![Len(s)] = Run(r.c, s[Len(s)].n + r.n)]
         ELSE Append(s, r)

\* s followed by t, both in normal form: the runs that meet are merged.
Cat(s, t) == IF t = <<>> THEN s ELSE AppendRun(s, Head(t)) \o Tail(t)

\* The string made of the given characters, one byte each.
RECURSIVE S(_)
S(chars) ==
    IF chars = <<>> THEN <<>>
    ELSE Cat(<<Run(Head(chars), 1)>>, S(Tail(chars)))

\* The first k bytes of s (all of s when it is shorter): s[:min(k, len(s))].
RECURSIVE Take(_, _)
Take(s, k) ==
    IF k <= 0 \/ s = <<>> THEN <<>>
    ELSE IF Head(s).n <= k
         THEN <<Head(s)>> \o Take(Tail(s), k - Head(s).n)
         ELSE <<Run(Head(s).c, k)>>

\* s without its first k bytes: s[min(k, len(s)):].
RECURSIVE Drop(_, _)
Drop(s, k) ==
    IF k <= 0 \/ s = <<>> THEN s
    ELSE IF Head(s).n <= k
         THEN Drop(Tail(s), k - Head(s).n)
         ELSE <<Run(Head(s).c, Head(s).n - k)>> \o Tail(s)

\* The bytes of s before its first NUL byte (a C string read).
RECURSIVE UpToNul(_)
UpToNul(s) ==
    IF s = <<>> \/ Head(s).c = NUL THEN <<>>
    ELSE <<Head(s)>> \o UpToNul(Tail(s))


\* All the strings of the sequence ss, concatenated.
RECURSIVE CatAllAcc(_, _)
CatAllAcc(acc, ss) ==
    IF ss = <<>> THEN acc ELSE CatAllAcc(Cat(acc, Head(ss)), Tail(ss))

CatAll(ss) == CatAllAcc(<<>>, ss)

\* The bytes of s one by one (used on short strings only).
RECURSIVE Expand(_)
Expand(s) ==
    IF s = <<>> THEN <<>>
    ELSE IF Head(s).n = 1 THEN <<Head(s).c>> \o Expand(Tail(s))
         ELSE <<Head(s).c>> \o Expand(<<Run(Head(s).c, Head(s).n - 1)>> \o Tail(s))

(***************************************************************************)
(* C pointers to NUL-terminated bytes, and C.GoString.                     *)
(***************************************************************************)
NULL == [null |-> TRUE, s |-> <<>>]
CStr(s) == [null |-> FALSE, s |-> s]

\* C.GoString(p): "" for a NULL pointer, else the bytes before the first NUL.
GoString(p) == IF p.null THEN <<>> ELSE UpToNul(p.s)

(***************************************************************************)
(* fastjson values.  One record shape for every type: t the type, s the    *)
(* text of a string or number, c the members of an object (records         *)
(* [k, v], in document order) or the elements of an array.                 *)
(***************************************************************************)
NilValue == [t |-> "nil", s |-> <<>>, c |-> <<>>]
JString(s) == [t |-> "string", s |-> s, c |-> <<>>]
JNumber(s) == [t |-> "number", s |-> s, c |-> <<>>]
JObject(kvs) == [t |-> "object", s |-> <<>>, c |-> kvs]
JArray(vs) == [t |-> "array", s |-> <<>>, c |-> vs]
JNull == [t |-> "null", s |-> <<>>, c |-> <<>>]
JTrue == [t |-> "true", s |-> <<>>, c |-> <<>>]
KV(k, v) == [k |-> k, v |-> v]

\* Object.Get: the value of the first member whose key is key, or nil.
RECURSIVE ObjectGet(_, _)
ObjectGet(kvs, key) ==
    IF kvs = <<>> THEN NilValue
    ELSE IF Head(kvs).k = key THEN Head(kvs).v
         ELSE ObjectGet(Tail(kvs), key)

Digits == {"0", "1", "2", "3", "4", "5", "6", "7", "8", "9"}
DigitVal(c) == CHOOSE n \in 0..9 : ToString(n) = c

RECURSIVE StripZeros(_)
StripZeros(ds) ==
    IF ds # <<>> /\ Head(ds).c = "0"
    THEN StripZeros(Tail(ds))
    ELSE ds

RECURSIVE DecValue(_, _)
DecValue(cs, acc) ==
    IF cs = <<>> THEN acc ELSE DecValue(Tail(cs), 10 * acc + DigitVal(Head(cs)))

\* strconv.Atoi(key) as Value.Get uses it: [ok, n], ok false on a syntax
\* error.  A value of more than 9 significant digits is reported as out of
\* the range of every array (n = -1): no array is that long.
Atoi(key) ==
    LET signed == key # <<>> /\ Head(key).c \in {"+", "-"} /\ Head(key).n = 1
        neg == signed /\ Head(key).c = "-"
        ds == IF signed THEN Tail(key) ELSE key
        sig == StripZeros(ds)
    IN  IF ds = <<>> \/ \E i \in 1..Len(ds) : ds[i].c \notin Digits
        THEN [ok |-> FALSE, n |-> 0]
        ELSE IF Width(sig) > 9
             THEN [ok |-> TRUE, n |-> -1]
             ELSE LET m == DecValue(Expand(sig), 0)
                  IN  [ok |-> TRUE, n |-> IF neg THEN 0 - m ELSE m]

\* (*Value).Get(keys...): nil receiver gives nil; an object is searched by
\* key, an array by decimal index, anything else gives nil.
RECURSIVE Get(_, _)
Get(v, keys) ==
    IF v.t = "nil" THEN NilValue
    ELSE IF keys = <<>> THEN v
    ELSE IF v.t = "object"
         THEN Get(ObjectGet(v.c, Head(keys)), Tail(keys))
    ELSE IF v.t = "array"
         THEN LET a == Atoi(Head(keys))
              IN  IF ~a.ok \/ a.n < 0 \/ a.n >= Len(v.c) THEN NilValue
                  ELSE Get(v.c[a.n + 1], Tail(keys))
    ELSE NilValue

\* A lookup that also gives the text of a number.
GetStringBytesOrNumber(v, keys) ==
    LET r == Get(v, keys)
    IN  IF r.t \notin {"string", "number"} THEN [nil |-> TRUE, s |-> <<>>]
        ELSE [nil |-> FALSE, s |-> r.s]

\* (*Value).GetStringBytes(keys...): [nil, s]; nil unless the path ends on a
\* string value.
GetStringBytes(v, keys) ==
    LET r == Get(v, keys)
    IN  IF r.t # "string" THEN [nil |-> TRUE, s |-> <<>>]
        ELSE [nil |-> FALSE, s |-> r.s]

\* strings.Split(s, "/"): the substrings between the separators, empty ones
\* kept; one empty string for the empty s.
RECURSIVE SplitAcc(_, _, _)
SplitAcc(s, cur, acc) ==
    IF s = <<>> THEN Append(acc, cur)
    ELSE IF Head(s).c = "/"
         THEN SplitAcc(IF Head(s).n = 1 THEN Tail(s)
                       ELSE <<Run("/", Head(s).n - 1)>> \o Tail(s),
                       <<>>, Append(acc, cur))
         ELSE SplitAcc(Tail(s), AppendRun(cur, Head(s)), acc)

Split(s) == SplitAcc(s, <<>>, <<>>)


(***************************************************************************)
(* Program constants.                                                      *)
(***************************************************************************)
outBufSize == 65535
FieldIDValue == 0
FieldIDMsg == 1

(***************************************************************************)
(* The event payloads of the model.  Each document is given with what the  *)
(* two JSON libraries make of its text: the fastjson tree and the          *)
(* json.Indent output (valid FALSE: both reject the text).                 *)
(***************************************************************************)
Q(s) == CatAll(<<S(<<"\"">>), s, S(<<"\"">>)>>)
Filler == <<Run("x", outBufSize)>>

TextA == CatAll(<<S(<<"{">>), Q(S(<<"a">>)), S(<<":">>), Q(S(<<"v">>)), S(<<"}">>)>>)
TextB == CatAll(<<S(<<"{">>), Q(<<>>), S(<<":">>), Q(S(<<"w">>)), S(<<",">>),
                  Q(S(<<"a">>)), S(<<":">>), Q(S(<<"u">>)), S(<<"}">>)>>)
TextBig == CatAll(<<S(<<"{">>), Q(S(<<"a">>)), S(<<":">>), Q(Filler), S(<<"}">>)>>)
TextBad == S(<<"n", "o", "p", "e">>)

\* A document with nested objects, an empty key, an array and leaves of
\* every type.
TextP ==
    CatAll(<<
        S(<<"{", "\"", "a", "\"", ":", "{", "\"", "b", "\"", ":", "\"", "v">>),
        S(<<"\"", ",", "\"", "\"", ":", "\"", "e", "\"", "}", ",", "\"", "\"">>),
        S(<<":", "{", "\"", "a", "\"", ":", "\"", "q", "\"", "}", ",", "\"">>),
        S(<<"l", "\"", ":", "[", "\"", "p", "\"", "]", ",", "\"", "n", "\"">>),
        S(<<":", "5", ",", "\"", "z", "\"", ":", "n", "u", "l", "l", ",">>),
        S(<<"\"", "t", "\"", ":", "t", "r", "u", "e", "}">>)>>)

IndentP ==
    CatAll(<<
        S(<<"{", "\n", " ", " ", "\"", "a", "\"", ":", " ", "{", "\n", " ">>),
        S(<<" ", " ", " ", "\"", "b", "\"", ":", " ", "\"", "v", "\"", ",">>),
        S(<<"\n", " ", " ", " ", " ", "\"", "\"", ":", " ", "\"", "e", "\"">>),
        S(<<"\n", " ", " ", "}", ",", "\n", " ", " ", "\"", "\"", ":", " ">>),
        S(<<"{", "\n", " ", " ", " ", " ", "\"", "a", "\"", ":", " ", "\"">>),
        S(<<"q", "\"", "\n", " ", " ", "}", ",", "\n", " ", " ", "\"", "l">>),
        S(<<"\"", ":", " ", "[", "\n", " ", " ", " ", " ", "\"", "p", "\"">>),
        S(<<"\n", " ", " ", "]", ",", "\n", " ", " ", "\"", "n", "\"", ":">>),
        S(<<" ", "5", ",", "\n", " ", " ", "\"", "z", "\"", ":", " ", "n">>),
        S(<<"u", "l", "l", ",", "\n", " ", " ", "\"", "t", "\"", ":", " ">>),
        S(<<"t", "r", "u", "e", "\n", "}">>)>>)

TreeP ==
    JObject(<<KV(S(<<"a">>), JObject(<<KV(S(<<"b">>), JString(S(<<"v">>))),
                                       KV(<<>>, JString(S(<<"e">>)))>>)),
              KV(<<>>, JObject(<<KV(S(<<"a">>), JString(S(<<"q">>)))>>)),
              KV(S(<<"l">>), JArray(<<JString(S(<<"p">>))>>)),
              KV(S(<<"n">>), JNumber(S(<<"5">>))),
              KV(S(<<"z">>), JNull),
              KV(S(<<"t">>), JTrue)>>)

Documents ==
    { [raw |-> TextA, valid |-> TRUE,
       tree |-> JObject(<<KV(S(<<"a">>), JString(S(<<"v">>)))>>),
       indent |-> CatAll(<<S(<<"{", "\n", " ", " ">>), Q(S(<<"a">>)), S(<<":", " ">>),
                           Q(S(<<"v">>)), S(<<"\n", "}">>)>>)],
      [raw |-> TextB, valid |-> TRUE,
       tree |-> JObject(<<KV(<<>>, JString(S(<<"w">>))),
                          KV(S(<<"a">>), JString(S(<<"u">>)))>>),
       indent |-> CatAll(<<S(<<"{", "\n", " ", " ">>), Q(<<>>), S(<<":", " ">>),
                           Q(S(<<"w">>)), S(<<",", "\n", " ", " ">>),
                           Q(S(<<"a">>)), S(<<":", " ">>),
                           Q(S(<<"u">>)), S(<<"\n", "}">>)>>)],
      [raw |-> TextBig, valid |-> TRUE,
       tree |-> JObject(<<KV(S(<<"a">>), JString(Filler))>>),
       indent |-> CatAll(<<S(<<"{", "\n", " ", " ">>), Q(S(<<"a">>)), S(<<":", " ">>),
                           Q(Filler), S(<<"\n", "}">>)>>)],
      [raw |-> TextP, valid |-> TRUE, tree |-> TreeP, indent |-> IndentP],
      [raw |-> TextBad, valid |-> FALSE, tree |-> NilValue, indent |-> <<>>] }

DocOf(s) == CHOOSE d \in Documents : d.raw = s

\* jparser.Parse(s): [err, v]; on an error the value returned is nil.
Parse(s) ==
    IF (\E d \in Documents : d.raw = s) /\ DocOf(s).valid
    THEN [err |-> FALSE, v |-> DocOf(s).tree]
    ELSE [err |-> TRUE, v |-> NilValue]

\* json.Indent(&out, s, "", "  "): [err, out].
Indent(s) ==
    IF (\E d \in Documents : d.raw = s) /\ DocOf(s).valid
    THEN [err |-> FALSE, out |-> DocOf(s).indent]
    ELSE [err |-> TRUE, out |-> <<>>]


(***************************************************************************)
(* plugin_extract_str, step by step.                                       *)
(***************************************************************************)
\* A decode step without its cache: every call parses.
NeedParseAlways(evtnum, cachedEvtnum) == TRUE

\* A decode step with its test the wrong way round.
NeedParseInverted(evtnum, cachedEvtnum) == evtnum = cachedEvtnum

\* The guard of the decode step: parse unless the cache is for this event.
NeedParse(evtnum, cachedEvtnum) == evtnum # cachedEvtnum

\* A decode step that records the event id before it knows the parse succeeded.
DecodeAdvanceOnFail(jd, jdEvtnum, evtnum, data) ==
    IF NeedParse(evtnum, jdEvtnum)
    THEN LET p == Parse(GoString(data))
         IN  [parsed |-> TRUE, err |-> p.err, jdata |-> p.v, jdataEvtnum |-> evtnum]
    ELSE [parsed |-> FALSE, err |-> FALSE, jdata |-> jd, jdataEvtnum |-> jdEvtnum]

\* The decode step: the cache after it, whether the parser ran (parsed) and
\* whether it failed (err: the call returns nil).  A failed Parse has already
\* stored its nil value in jdata; jdataEvtnum is set on success only.
Decode(jd, jdEvtnum, evtnum, data) ==
    IF NeedParse(evtnum, jdEvtnum)
    THEN LET p == Parse(GoString(data))
         IN  [parsed |-> TRUE, err |-> p.err, jdata |-> p.v,
              jdataEvtnum |-> IF p.err THEN jdEvtnum ELSE evtnum]
    ELSE [parsed |-> FALSE, err |-> FALSE, jdata |-> jd, jdataEvtnum |-> jdEvtnum]

\* The outcome of a field: kind "ok" with the text s, "nil" (return nil) or
\* "panic" (a Go run-time panic).
Ok(s) == [kind |-> "ok", s |-> s]
Absent == [kind |-> "nil", s |-> <<>>]
Panic == [kind |-> "panic", s |-> <<>>]

\* A path parser that strips every leading separator.
RECURSIVE PathKeysTrimAll(_)
PathKeysTrimAll(sarg) ==
    IF sarg # <<>> /\ Head(sarg).c = "/"
    THEN PathKeysTrimAll(Tail(sarg))
    ELSE Split(sarg)

\* The keys hc of a non-empty argument: one leading separator is dropped and
\* the rest is split on the separator.
PathKeys(sarg) ==
    Split(IF Head(sarg).c = "/" THEN Drop(sarg, 1) ELSE sarg)

\* case FieldIDValue: sarg[0] panics on the empty string.
ExtractValue(jd, arg) ==
    LET sarg == GoString(arg)
    IN  IF sarg = <<>> THEN Panic
        ELSE LET val == GetStringBytes(jd, PathKeys(sarg))
             IN  IF val.nil THEN Absent ELSE Ok(val.s)

\* case FieldIDMsg.
ExtractMsg(data) ==
    LET r == Indent(GoString(data))
    IN  IF r.err THEN Absent ELSE Ok(r.out)

NA == S(<<"<", "N", "A", ">">>)

\* A switch whose full-document case gives up when the cache holds no
\* document.
ExtractFieldMsgCached(id, jd, arg, data) ==
    IF id = FieldIDValue THEN ExtractValue(jd, arg)
    ELSE IF id = FieldIDMsg THEN (IF jd = NilValue THEN Absent ELSE ExtractMsg(data))
    ELSE Ok(NA)

\* A switch whose default case returns nil.
ExtractFieldOtherAbsent(id, jd, arg, data) ==
    IF id = FieldIDValue THEN ExtractValue(jd, arg)
    ELSE IF id = FieldIDMsg THEN ExtractMsg(data)
    ELSE Absent

\* A switch that indexes the argument before it looks at the field id.
ExtractFieldArgFirst(id, jd, arg, data) ==
    IF GoString(arg) = <<>> THEN Panic
    ELSE IF id = FieldIDValue THEN ExtractValue(jd, arg)
    ELSE IF id = FieldIDMsg THEN ExtractMsg(data)
    ELSE Ok(NA)

\* The switch on the field id.
ExtractField(id, jd, arg, data) ==
    IF id = FieldIDValue THEN ExtractValue(jd, arg)
    ELSE IF id = FieldIDMsg THEN ExtractMsg(data)
    ELSE Ok(NA)

\* sinsp.CopyToBuffer: a Go copy into the outBufSize bytes of the buffer; the
\* bytes of b after the copied ones stay.
CopyToBuffer(b, src) ==
    LET w == Take(src, Width(b))
    IN  Cat(w, Drop(b, Width(w)))

\* What the call hands back: "null", "buffer" (sinsp.Buffer) or "panic".
Returned(d, f) ==
    IF d.err THEN "null"
    ELSE IF f.kind = "panic" THEN "panic"
    ELSE IF f.kind = "nil" THEN "null"
    ELSE "buffer"

\* A call that terminates and copies its result before looking at it.
BufferAfterAlways(b, d, f) ==
    IF Returned(d, f) = "panic" THEN b
    ELSE CopyToBuffer(b, Cat(f.s, <<Run(NUL, 1)>>))

\* The output buffer after the call: written only on the way to line 178.
BufferAfter(b, d, f) ==
    IF Returned(d, f) = "buffer"
    THEN CopyToBuffer(b, Cat(f.s, <<Run(NUL, 1)>>))
    ELSE b

\* The extractor without the decode cache: every call parses its own bytes.
RefExtract(id, arg, data) ==
    LET p == Parse(GoString(data))
        f == ExtractField(id, p.v, arg, data)
    IN  IF p.err THEN Absent ELSE f

(***************************************************************************)
(* State.                                                                  *)
(***************************************************************************)
VARIABLES
    jdata,        \* pluginContext.jdata
    jdataEvtnum,  \* pluginContext.jdataEvtnum
    lastError,    \* pluginContext.lastError
    buf,          \* the state container's buffer (sinsp.MakeBuffer)
    status,       \* "running", or "panicked" once a call has panicked
    last,         \* history: the most recent call, its inputs and outcome,
                  \* and the event id of the call before it (-1: none)
                  \* with whether that call's parse failed
    monoHist,     \* history: the event ids of the calls never decreased
    okHist,       \* history: monoHist, and each id came with one payload only
    lastFailure,  \* history: the diagnostic of the most recent call whose
                  \* parse failed, "none" before the first such call
    errRead       \* history: what plugin_get_last_error last returned, with
                  \* lastFailure as it was then

vars ==
    <<jdata, jdataEvtnum, lastError, buf, status, last, monoHist, okHist,
      lastFailure, errRead>>

MaxEvtnum == 2

\* The inputs of the calls.  A field id other than the two known ones takes
\* the default branch.
EvtNums == 0..MaxEvtnum
FieldIds == {FieldIDValue, FieldIDMsg, FieldIDMsg + 1}
ArgSlashA == CStr(S(<<"/", "a">>))
ArgSlash == CStr(S(<<"/">>))
ArgEmpty == CStr(<<>>)
DataA == CStr(TextA)
DataB == CStr(TextB)
DataBig == CStr(TextBig)
DataBad == CStr(TextBad)
DataP == CStr(TextP)
ArgSlashAB == CStr(S(<<"/", "a", "/", "b">>))
ArgAB == CStr(S(<<"a", "/", "b">>))
ArgSlashSlashA == CStr(S(<<"/", "/", "a">>))
ArgASlash == CStr(S(<<"a", "/">>))
ArgSlashAX == CStr(S(<<"/", "a", "/", "x">>))
ArgSlashL0 == CStr(S(<<"/", "l", "/", "0">>))
ArgSlashL == CStr(S(<<"/", "l">>))
ArgSlashN == CStr(S(<<"/", "n">>))
ArgSlashNB == CStr(S(<<"/", "n", "/", "b">>))
ArgSlashZ == CStr(S(<<"/", "z">>))
ArgSlashT == CStr(S(<<"/", "t">>))
PathArgs ==
    {ArgSlashAB, ArgAB, ArgSlashSlashA, ArgASlash, ArgSlashA, ArgSlashAX,
     ArgSlashL0, ArgSlashL, ArgSlashN, ArgSlashNB, ArgSlashZ, ArgSlashT}

\* The error a failed jparser.Parse returns (its text is not modelled).
ParseErrorText == "cannot parse JSON"

NoRead == [valid |-> FALSE, text |-> "", failure |-> "none"]

NoCall ==
    [valid |-> FALSE, prevEvtnum |-> -1, prevPerr |-> FALSE,
     evtnum |-> 0, id |-> 0, arg |-> NULL,
     data |-> NULL,
     parsed |-> FALSE, perr |-> FALSE, ret |-> "null", text |-> <<>>]

\* plugin_init: an empty context and a buffer of outBufSize bytes that nobody
\* has written ("?" stands for such a byte).
Init ==
    /\ jdata = NilValue
    /\ jdataEvtnum = 0
    /\ lastError = "nil"
    /\ buf = <<Run("?", outBufSize)>>
    /\ status = "running"
    /\ last = NoCall
    /\ monoHist = TRUE
    /\ okHist = TRUE
    /\ lastFailure = "none"
    /\ errRead = NoRead

plugin_extract_str(evtnum, id, arg, data) ==
    /\ status = "running"
    /\ LET d == Decode(jdata, jdataEvtnum, evtnum, data)
           f == IF d.err THEN Absent ELSE ExtractField(id, d.jdata, arg, data)
           r == Returned(d, f)
       IN  /\ jdata' = d.jdata
           /\ jdataEvtnum' = d.jdataEvtnum
           /\ buf' = BufferAfter(buf, d, f)
           /\ status' = IF r = "panic" THEN "panicked" ELSE "running"
           /\ last' = [valid |-> TRUE,
                       prevEvtnum |-> IF last.valid THEN last.evtnum ELSE -1,
                       prevPerr |-> last.perr,
                       evtnum |-> evtnum, id |-> id, arg |-> arg,
                       data |-> data, parsed |-> d.parsed, perr |-> d.err,
                       ret |-> r, text |-> IF r = "buffer" THEN f.s ELSE <<>>]
           /\ monoHist' = (monoHist /\ (last.valid => evtnum >= last.evtnum))
           /\ okHist' = (/\ okHist
                         /\ last.valid => /\ evtnum >= last.evtnum
                                          /\ evtnum = last.evtnum => data = last.data)
           /\ lastFailure' = IF d.err THEN ParseErrorText ELSE lastFailure
    /\ UNCHANGED <<lastError, errRead>>

\* plugin_get_last_error: the text of lastError, "no error" when it is nil.
LastErrorText(e) == IF e # "nil" THEN e ELSE "no error"

plugin_get_last_error ==
    /\ status = "running"
    /\ errRead' = [valid |-> TRUE, text |-> LastErrorText(lastError),
                   failure |-> lastFailure]
    /\ UNCHANGED <<jdata, jdataEvtnum, lastError, buf, status, last, monoHist,
                   okHist, lastFailure>>

\* The host calls the extractor with inputs drawn from the given sets.
Calls(E, F, A, D) ==
    \E evtnum \in E, id \in F, arg \in A, data \in D :
        plugin_extract_str(evtnum, id, arg, data)

\* Decode-cache runs: events with well-formed and malformed payloads.
Next == Calls(EvtNums, FieldIds, {ArgSlashA}, {DataA, DataB, DataBad})

Spec == Init /\ [][Next]_vars

\* Argument runs: every shape of the path argument, the missing one included.
NextArgs ==
    Calls(EvtNums, {FieldIDValue, FieldIDMsg},
          {NULL, ArgEmpty, ArgSlash, ArgSlashA}, {DataA, DataB, DataBad})

SpecArgs == Init /\ [][NextArgs]_vars

\* Buffer runs: results that fit the buffer and results that do not.
NextBuf == Calls(EvtNums, FieldIds, {ArgSlashA}, {DataA, DataBig, DataBad})

SpecBuf == Init /\ [][NextBuf]_vars

\* Path runs: jevt.value requests with every path of PathArgs, on a flat and
\* on a nested document.
NextPath == Calls(1..MaxEvtnum, {FieldIDValue}, PathArgs, {DataA, DataP})

SpecPath == Init /\ [][NextPath]_vars

\* Calls for jevt.value and for a field id outside the switch, with a path,
\* the empty string or no argument.
NextOther ==
    Calls(EvtNums, {FieldIDValue, FieldIDMsg + 1}, {NULL, ArgEmpty, ArgSlashA},
          {DataA, DataBad})

SpecOther == Init /\ [][NextOther]_vars

\* Diagnostic runs: calls that fail and calls that do not, and the host
\* asking for the last error in between.
NextErr ==
    \/ Calls(EvtNums, FieldIds, {ArgSlashA}, {DataA, DataBad})
    \/ plugin_get_last_error

SpecErr == Init /\ [][NextErr]_vars


(***************************************************************************)
(* Properties.                                                             *)
(***************************************************************************)
\* The outcome of the most recent call, as a field outcome.
LastOutcome(l) ==
    IF l.ret = "buffer" THEN Ok(l.text)
    ELSE IF l.ret = "panic" THEN Panic
    ELSE Absent

WellFormed(data) == ~Parse(GoString(data)).err

FreshBuffer == <<Run("?", outBufSize)>>

\* C1: while ids never decrease and each id keeps its payload, every call
\* returns what the cache-free extractor returns for its field id, argument
\* and raw bytes.
C1_CacheTransparent ==
    (last.valid /\ okHist) =>
        LastOutcome(last) = RefExtract(last.id, last.arg, last.data)

\* C2: a call that gets past the decode step leaves jdataEvtnum at its event
\* id and jdata at the non-nil parse tree of its raw bytes.
C2_PastDecodeFresh ==
    (last.valid /\ ~last.perr) =>
        /\ jdataEvtnum = last.evtnum
        /\ jdata # NilValue
        /\ jdata = Parse(GoString(last.data)).v

\* C3: a call whose parse fails leaves jdataEvtnum and jdata as they were.
C3_FailedParseKeepsCache ==
    [][(last'.valid /\ last'.perr) =>
           (jdataEvtnum' = jdataEvtnum /\ jdata' = jdata)]_vars

\* C4 (as claimed): of two consecutive calls with one event id, at most one
\* runs the parser.
C4_AtMostOneParse ==
    [][(last.valid /\ last'.evtnum = last.evtnum) =>
           ~(last.parsed /\ last'.parsed)]_vars

\* C4 (amended): when the first of two consecutive calls with one event id
\* got past the decode step, the second does not run the parser.
C4_NoReparseAfterDecode ==
    [][(last.valid /\ ~last.perr /\ last'.evtnum = last.evtnum) =>
           ~last'.parsed]_vars

\* A call served from the cache of the call before it, for the same event.
C4_Witness ==
    /\ last.valid /\ last.prevEvtnum = last.evtnum
    /\ ~last.parsed /\ last.ret = "buffer"
    /\ jdataEvtnum = last.evtnum /\ jdata # NilValue

\* C5 (as claimed): a call whose event id differs from the preceding call's
\* runs the parser.
C5_ParseOnIdChange ==
    [][(last.valid /\ last'.evtnum # last.evtnum) => last'.parsed]_vars

\* C5 (amended): while event ids never decrease, a call whose event id differs
\* from the preceding call's runs the parser, whatever the preceding outcome.
C5_ParseOnIdIncrease ==
    [][(last.valid /\ monoHist' /\ last'.evtnum # last.evtnum) =>
           last'.parsed]_vars

\* A call for a later event than the call before it, which had failed to
\* parse: parsed, and its value published.
C5_Witness ==
    /\ last.valid /\ monoHist /\ last.prevEvtnum \notin {-1, last.evtnum}
    /\ last.prevPerr /\ jdataEvtnum = last.evtnum
    /\ last.parsed /\ last.ret = "buffer" /\ last.id = FieldIDValue

\* C6: a call with malformed bytes returns no value, and a well-formed call
\* for a larger event id right after a failed parse returns what its own
\* bytes, field id and argument determine.
C6_MalformedNoPoison ==
    [][last'.valid =>
           /\ ~WellFormed(last'.data) => last'.ret = "null"
           /\ (/\ last.valid /\ last.perr
               /\ last'.evtnum > last.evtnum
               /\ WellFormed(last'.data))
              => LastOutcome(last') = RefExtract(last'.id, last'.arg, last'.data)]_vars

\* C7 (as claimed): a jevt.json call does not run the parser, leaves jdata and
\* jdataEvtnum alone and returns what json.Indent makes of its raw bytes.
C7_MsgBypassesCache ==
    [][(last'.valid /\ last'.id = FieldIDMsg) =>
           /\ ~last'.parsed
           /\ jdata' = jdata /\ jdataEvtnum' = jdataEvtnum
           /\ LET r == Indent(GoString(last'.data))
              IN  LastOutcome(last') = IF r.err THEN Absent ELSE Ok(r.out)]_vars

\* C7 (amended): a jevt.json call goes through the decode step (it parses
\* exactly when its event id is not the cached one, and a failed parse ends
\* the call); past the decode step its result is what json.Indent makes of
\* its raw bytes, whatever jdata holds.
C7_MsgThroughDecode ==
    [][(last'.valid /\ last'.id = FieldIDMsg) =>
           /\ last'.parsed = (last'.evtnum # jdataEvtnum)
           /\ ~last'.parsed => (jdata' = jdata /\ jdataEvtnum' = jdataEvtnum)
           /\ last'.perr => (last'.ret = "null" /\ jdataEvtnum' = jdataEvtnum)
           /\ ~last'.perr =>
                 /\ jdataEvtnum' = last'.evtnum
                 /\ LET r == Indent(GoString(last'.data))
                    IN  LastOutcome(last') = IF r.err THEN Absent ELSE Ok(r.out)]_vars

\* A jevt.json call that parsed its event into the cache and published, and
\* one that was let past the decode step with no document in the cache.
C7_Witness ==
    /\ last.valid /\ last.id = FieldIDMsg /\ last.ret = "buffer"
    /\ \/ last.parsed /\ jdataEvtnum = last.evtnum /\ jdata # NilValue
       \/ ~last.parsed /\ jdata = NilValue

\* The argument is empty once its leading separator is stripped.
ZeroLengthPath(arg) == GoString(arg) \in {<<>>, S(<<"/">>)}

\* C8: a jevt.value call with a zero-length path does not crash and returns
\* the string member of the root under the empty key, or absent.
C8_ZeroLengthPath ==
    (last.valid /\ last.id = FieldIDValue /\ ZeroLengthPath(last.arg)) =>
        /\ last.ret # "panic"
        /\ ~last.perr =>
              LET v == GetStringBytes(jdata, <<<<>>>>)
              IN  LastOutcome(last) = IF v.nil THEN Absent ELSE Ok(v.s)

\* C9: a call that returns the null handle leaves the output buffer as it was.
C9_NullLeavesBuffer ==
    [][(last'.valid /\ last'.ret = "null") => buf' = buf]_vars

\* A null return after an earlier call has published.
C9_Witness ==
    last.valid /\ last.ret = "null" /\ buf # FreshBuffer

\* C10: after a call that returned the buffer, the buffer starts with the
\* call's result text and one 0 byte, which is what a C reader gets from it.
C10_BufferHoldsResult ==
    (last.valid /\ last.ret = "buffer") =>
        /\ Take(buf, Width(last.text) + 1) = Cat(last.text, <<Run(NUL, 1)>>)
        /\ UpToNul(buf) = UpToNul(last.text)


\* C11: a call publishes only a text that fits the buffer with its 0 byte; a
\* longer one makes the call abort.
C11_PublishedFits ==
    (last.valid /\ last.ret = "buffer") =>
        Width(last.text) + 1 <= outBufSize

\* C12: once a call has failed, plugin_get_last_error returns the diagnostic
\* of the most recent failing call, also after later calls that succeed.
C12_LastErrorRetained ==
    (errRead.valid /\ errRead.failure # "none") =>
        errRead.text = errRead.failure


\* The value a walk from v ends on, going through objects by member key only
\* (the first member of that key); nil when the walk cannot go on.
RECURSIVE ObjectWalk(_, _)
ObjectWalk(v, segs) ==
    IF segs = <<>> THEN v
    ELSE IF v.t = "object" /\ \E i \in 1..Len(v.c) : v.c[i].k = Head(segs)
         THEN LET i == CHOOSE i \in 1..Len(v.c) :
                          /\ v.c[i].k = Head(segs)
                          /\ \A j \in 1..(i - 1) : v.c[j].k # Head(segs)
              IN  ObjectWalk(v.c[i].v, Tail(segs))
         ELSE NilValue

\* The same walk, going through arrays too, by a segment that reads as the
\* decimal index of an element.
RECURSIVE ObjectOrIndexWalk(_, _)
ObjectOrIndexWalk(v, segs) ==
    IF segs = <<>> THEN v
    ELSE IF v.t = "object" /\ \E i \in 1..Len(v.c) : v.c[i].k = Head(segs)
         THEN LET i == CHOOSE i \in 1..Len(v.c) :
                          /\ v.c[i].k = Head(segs)
                          /\ \A j \in 1..(i - 1) : v.c[j].k # Head(segs)
              IN  ObjectOrIndexWalk(v.c[i].v, Tail(segs))
    ELSE IF v.t = "array" /\ \E i \in 1..Len(v.c) :
                                 Atoi(Head(segs)) = [ok |-> TRUE, n |-> i - 1]
         THEN LET i == CHOOSE i \in 1..Len(v.c) :
                          Atoi(Head(segs)) = [ok |-> TRUE, n |-> i - 1]
              IN  ObjectOrIndexWalk(v.c[i], Tail(segs))
    ELSE NilValue

StringOf(w) == IF w.t = "string" THEN Ok(w.s) ELSE Absent

\* C13 (as claimed): a jevt.value lookup returns the string that the walk of
\* its path through objects by member key ends on, and is absent otherwise.
C13_ObjectWalkOnly ==
    (last.valid /\ last.id = FieldIDValue /\ ~last.perr
        /\ GoString(last.arg) # <<>>) =>
        LastOutcome(last) =
            StringOf(ObjectWalk(jdata, PathKeys(GoString(last.arg))))

\* C13 (amended): the walk also goes through an array, by a segment that is
\* the decimal index of one of its elements.
C13_ObjectOrIndexWalk ==
    (last.valid /\ last.id = FieldIDValue /\ ~last.perr
        /\ GoString(last.arg) # <<>>) =>
        LastOutcome(last) =
            StringOf(ObjectOrIndexWalk(jdata, PathKeys(GoString(last.arg))))

\* The string element of an array, returned for the path /l/0.
C13_Witness ==
    /\ last.valid /\ last.id = FieldIDValue /\ last.arg = ArgSlashL0
    /\ jdata = TreeP /\ last.ret = "buffer" /\ last.text = S(<<"p">>)

\* C16: one optional leading separator is stripped and the rest is split on
\* the separator, empty segments kept as keys: /a/b and a/b both look up
\* (a, b), //a looks up ("", a) and a/ looks up (a, "").
C16_PathParsing ==
    (last.valid /\ last.id = FieldIDValue /\ ~last.perr) =>
        LET look(keys) == StringOf(ObjectOrIndexWalk(jdata, keys))
            a == S(<<"a">>)
            b == S(<<"b">>)
        IN  /\ last.arg \in {ArgSlashAB, ArgAB} =>
                   LastOutcome(last) = look(<<a, b>>)
            /\ last.arg = ArgSlashSlashA =>
                   LastOutcome(last) = look(<<<<>>, a>>)
            /\ last.arg = ArgASlash =>
                   LastOutcome(last) = look(<<a, <<>>>>)

\* //a returns the member a of the member "" of the root, where the key
\* sequence (a) alone ends on an object.
C16_Witness ==
    /\ last.valid /\ last.id = FieldIDValue /\ last.arg = ArgSlashSlashA
    /\ last.ret = "buffer" /\ last.text = S(<<"q">>)
    /\ StringOf(ObjectOrIndexWalk(jdata, <<S(<<"a">>)>>)) = Absent

\* C14: a jevt.json call does not crash, and with any other argument (a
\* string, the empty string or none) the same call from the same state would
\* return the same result and leave the same context and buffer.
C14_MsgIgnoresArg ==
    [][(last'.valid /\ last'.id = FieldIDMsg) =>
           /\ last'.ret # "panic" /\ status' = "running"
           /\ \A a \in {NULL, ArgEmpty, ArgSlash, ArgSlashA} :
                 LET d == Decode(jdata, jdataEvtnum, last'.evtnum, last'.data)
                     f == IF d.err THEN Absent
                          ELSE ExtractField(FieldIDMsg, d.jdata, a, last'.data)
                 IN  /\ jdata' = d.jdata /\ jdataEvtnum' = d.jdataEvtnum
                     /\ buf' = BufferAfter(buf, d, f)
                     /\ last'.ret = Returned(d, f)
                     /\ last'.ret = "buffer" => last'.text = f.s]_vars

\* A jevt.json call with the empty or the missing argument that published
\* the document.
C14_Witness ==
    /\ last.valid /\ last.id = FieldIDMsg /\ last.arg \in {NULL, ArgEmpty}
    /\ last.ret = "buffer" /\ last.text = Indent(GoString(last.data)).out

\* C15: the call that follows a failed parse and carries the same event id
\* parses the bytes it is given, so with well-formed bytes it gets past the
\* decode step with their document in the cache.
C15_RetryParses ==
    [][(last.valid /\ last.perr /\ last'.valid /\ last'.evtnum = last.evtnum) =>
           /\ last'.parsed
           /\ WellFormed(last'.data) =>
                 /\ ~last'.perr
                 /\ jdataEvtnum' = last'.evtnum
                 /\ jdata' = Parse(GoString(last'.data)).v
                 /\ last'.id = FieldIDMsg =>
                       (last'.ret = "buffer" /\
                        last'.text = Indent(GoString(last'.data)).out)]_vars

\* A retry with well-formed bytes, right after the parse of the same event
\* failed, that published the document.
C15_Witness ==
    /\ last.valid /\ last.prevPerr /\ last.prevEvtnum = last.evtnum
    /\ last.parsed /\ ~last.perr /\ last.id = FieldIDMsg /\ last.ret = "buffer"

\* C17: a call for a field id outside the switch returns the null handle and
\* leaves the buffer when its decode step fails; otherwise it publishes <NA>
\* and its 0 terminator and returns the buffer, whatever the argument.
C17_OtherFieldNA ==
    [][(last'.valid /\ last'.id \notin {FieldIDValue, FieldIDMsg}) =>
           /\ last'.perr => (last'.ret = "null" /\ buf' = buf)
           /\ ~last'.perr =>
                 /\ last'.ret = "buffer" /\ last'.text = NA
                 /\ Take(buf', Width(NA) + 1) = Cat(NA, <<Run(NUL, 1)>>)]_vars

\* <NA> published by a call with no argument.
C17_Witness ==
    /\ last.valid /\ last.id = FieldIDMsg + 1 /\ last.arg = NULL
    /\ last.ret = "buffer" /\ last.text = NA
    /\ Take(buf, Width(NA) + 1) = Cat(NA, <<Run(NUL, 1)>>)

====
